---- MODULE Spec2Model ----
\* A state-machine model of fileio.js (File handles with a time-expiring cache).
\* Every fs call is asynchronous: a call step issues it (it joins `pending`),
\* a later callback step completes it.  Time is discrete: Tick advances it by
\* one unit and a timer whose delay has run out fires before time moves on.
EXTENDS Integers, Sequences, FiniteSets, TLC

\* ---------------------------------------------------------------- bounds
MaxLen == 2
MaxPending == 2
MaxExpires == 2
MaxDepth == 2

\* ---------------------------------------------------------------- values
Handles == {"file", "other"}
Paths == {"f", "g"}
NoHandle == "none"
NoTimer == 0
NoFile == <<"ENOENT">>

\* the contents of a file, of a string or of a Buffer: a sequence of "a"s of at
\* most MaxLen letters
\* JavaScript values that the cache, the data arguments and the results hold
Null == [k |-> "null", v |-> <<>>]
Str(s) == [k |-> "string", v |-> s]
Buf(s) == [k |-> "Buffer", v |-> s]

Num(s) == [k |-> "number", v |-> s]

\* the data arguments of write and append
DataIn == {Str(<<"a">>), Buf(<<"a">>)}

\* a data argument that is neither a string nor a Buffer: the number 1, with
\* the text its conversion to a string gives
BadData == {Num(<<"1">>)}

\* option arguments: undefined, a boolean, a number or an object
Fields == {"cache", "expires", "fromCache", "resetTimer"}
FullOptions == [cache : BOOLEAN, expires : 0..MaxExpires, fromCache : BOOLEAN, resetTimer : BOOLEAN]
OptUndefined == [t |-> "undefined"]
OptBoolean(b) == [t |-> "boolean", b |-> b]
OptNumber(n) == [t |-> "number", n |-> n]
OptObject(o) == [t |-> "object", o |-> o]
Restrict(o, D) == [k \in D |-> o[k]]

\* File.defaultOptions
defaultOptions == [cache |-> FALSE, expires |-> 0, fromCache |-> FALSE, resetTimer |-> TRUE]

\* ---------------------------------------------------------------- state
VARIABLES
  files,     \* the filesystem: path -> contents, or NoFile
  handles,   \* the File objects: path, cache, cacheTimer, defaults, options
  timers,    \* the armed timeouts of the event loop: [id, h, left]
  pending,   \* the fs calls in flight, oldest first, each with its closure
  out,       \* what the last step returned, threw or settled its promise with
  hist,      \* per handle, the last cache transition and the time since
  directory, \* the Directory object: path, fileOptions
  tree,      \* the filesystem: the directories that exist
  make,      \* the call of Directory.make: its arguments, $p, $s and its promise
  platform   \* the platform of the runtime: "win32" or "posix"

\* the state of the directories
dvars == <<directory, tree, make, platform>>

vars == <<files, handles, timers, pending, out, hist, directory, tree, make, platform>>

\* ---------------------------------------------------------------- options
\* cloneOptions: a fresh object with the own keys of o
cloneOptions(o) == [k \in DOMAIN o |-> o[k]]

\* the falsy option arguments of `options || $.options`
Falsy(x) ==
  \/ x.t = "undefined"
  \/ x.t = "boolean" /\ ~x.b
  \/ x.t = "number" /\ x.n = 0

\* options || $.options
OrOptions(options, handleOptions) == IF Falsy(options) THEN handleOptions ELSE options

\* inspectOptions(options, object) for a File object
inspectOptions(options, object) ==
  LET output == cloneOptions(object.defaults) IN
  CASE options.t = "number" ->
         [k \in DOMAIN output \cup {"expires", "cache"} |->
            IF k = "expires" THEN options.n ELSE IF k = "cache" THEN TRUE ELSE output[k]]
    [] options.t = "boolean" ->
         [k \in DOMAIN output \cup {"cache"} |-> IF k = "cache" THEN options.b ELSE output[k]]
    [] options.t = "object" ->
         [k \in DOMAIN output \cup DOMAIN options.o |->
            IF k \in DOMAIN options.o THEN options.o[k] ELSE output[k]]
    [] OTHER -> output

\* mutant of DefaultsAfter: output is object.defaults itself
DefaultsAfterAliased(options, object) == inspectOptions(options, object)

\* var output = cloneOptions(object.defaults): the assignments of inspectOptions
\* go to the copy; object.defaults after the call
DefaultsAfter(options, object) == object.defaults

\* the File objects after inspectOptions(options || $.options, $) on the handle h
Inspected(hs, h, options) ==
  [hs EXCEPT ![h].defaults = DefaultsAfter(OrOptions(options, hs[h].options), hs[h])]

\* the reads of the resolved options: a missing field is undefined (falsy, not > 0)
OptCache(o) == "cache" \in DOMAIN o /\ o["cache"]
OptResetTimer(o) == "resetTimer" \in DOMAIN o /\ o["resetTimer"]
OptFromCache(o) == "fromCache" \in DOMAIN o /\ o["fromCache"]
OptExpires(o) == IF "expires" \in DOMAIN o THEN o["expires"] ELSE 0

\* ---------------------------------------------------------------- timers
UsedTimerIds(tms, hs) == {t.id : t \in tms} \cup {hs[h].cacheTimer : h \in Handles}

\* setTimeout returns a fresh Timeout object: the least id not in use
FreshTimer(tms, hs) ==
  LET used == UsedTimerIds(tms, hs)
      free == (1..(Cardinality(used) + 1)) \ used
  IN CHOOSE i \in free : \A j \in free : i <= j

\* mutant of setTimeout: the delay is one unit too long
setTimeoutLate(tms, id, h, delay) == tms \cup {[id |-> id, h |-> h, left |-> delay + 1]}

\* setTimeout(function () { $.cache = null; $.cacheTimer = null; }, delay)
setTimeout(tms, id, h, delay) == tms \cup {[id |-> id, h |-> h, left |-> delay]}

\* mutant of clearTimeout: the timeout stays armed
clearTimeoutKeeps(tms, id) == tms

\* clearTimeout(timer)
clearTimeout(tms, id) == {t \in tms : t.id # id}

\* the time left on the timer id, -1 when it is not armed
LeftOf(tms, id) ==
  IF \E t \in tms : t.id = id THEN (CHOOSE t \in tms : t.id = id).left ELSE -1

\* mutant of ShouldCache: the options are not consulted
ShouldCacheAlways(opts) == TRUE

\* if (options.cache)
ShouldCache(opts) == OptCache(opts)

\* mutants of ShouldClear: resetTimer is not consulted; the timer is never cleared
ShouldClearAlways(opts, cacheTimer) == cacheTimer # NoTimer
ShouldClearNever(opts, cacheTimer) == FALSE

\* options.resetTimer && $.cacheTimer !== null
ShouldClear(opts, cacheTimer) == OptResetTimer(opts) /\ cacheTimer # NoTimer

\* mutant of ShouldArm: an armed timer is not looked at
ShouldArmIgnoringTimer(opts, cacheTimer) == OptExpires(opts) > 0

\* mutant of ShouldArm: a timer is armed only under resetTimer
ShouldArmOnlyOnReset(opts, cacheTimer) ==
  OptResetTimer(opts) /\ OptExpires(opts) > 0 /\ cacheTimer = NoTimer

\* options.expires > 0 && $.cacheTimer === null
ShouldArm(opts, cacheTimer) == OptExpires(opts) > 0 /\ cacheTimer = NoTimer

\* the timer block of the read, write and append callbacks, after $.cache = val
\* has been decided: the handles and the timers it leaves
CacheTransition(h, opts, val, hs, tms) ==
  LET t0 == hs[h].cacheTimer
      clear == ShouldClear(opts, t0)
      t1 == IF clear THEN NoTimer ELSE t0
      tms1 == IF clear THEN clearTimeout(tms, t0) ELSE tms
      arm == ShouldArm(opts, t1)
      id == FreshTimer(tms1, [hs EXCEPT ![h].cacheTimer = t1])
      t2 == IF arm THEN id ELSE t1
      tms2 == IF arm THEN setTimeout(tms1, id, h, OptExpires(opts)) ELSE tms1
  IN [handles |-> [hs EXCEPT ![h].cache = val, ![h].cacheTimer = t2], timers |-> tms2]

\* ---------------------------------------------------------------- values
\* the truthiness of a cache value: null and the empty string are falsy
Truthy(v) == v # Null /\ ~(v.k = "string" /\ v.v = <<>>)

\* mutant of StoreCacheValue: a populated cache is kept
StoreCacheValueFirst(cache, data) == IF cache # Null THEN cache ELSE data

\* $.cache = data, in the read and the write callbacks
StoreCacheValue(cache, data) == data

\* '' + data, the text a value is converted to: the characters of a string, of
\* a Buffer or of a number, 'null' for null
Text(data) == IF data.k = "null" THEN <<"null">> ELSE data.v

\* mutant of AppendCacheValue: the appended data replaces the cache
AppendCacheValueOverwrite(cache, data) == Str(data.v)

\* ($.cache || '') + data, in the append callback: a string
AppendCacheValue(cache, data) ==
  Str((IF Truthy(cache) THEN cache.v ELSE <<>>) \o Text(data))

\* what the last step made observable
NoOut == [ev |-> "none"]
Resolved(h, v) == [ev |-> "resolve", h |-> h, what |-> "data", val |-> v]
ResolvedSelf(h) == [ev |-> "resolve", h |-> h, what |-> "file"]
Rejected(h, e) == [ev |-> "reject", h |-> h, err |-> e]
Thrown(h, e) == [ev |-> "throw", h |-> h, err |-> e]
ReturnedUndefined(h) == [ev |-> "return", h |-> h, what |-> "undefined"]
ReturnedFile(h) == [ev |-> "return", h |-> h, what |-> "file"]
ResolvedStats(h, size) == [ev |-> "resolve", h |-> h, what |-> "stats", size |-> size]
ResolvedSize(h, size, unit) ==
  [ev |-> "resolve", h |-> h, what |-> "size", size |-> size, unit |-> unit]
ResolvedPair(h, v) == [ev |-> "resolve", h |-> h, what |-> "[file, data]", val |-> v]

\* the closures of the calls in flight
NoOpts == <<>>
NoNext == [t |-> "none"]
ThenAppend(h, options) == [t |-> "append", h |-> h, options |-> options]
ThenPair == [t |-> "pair"]
ThenRemove(target) == [t |-> "remove", target |-> target]
ThenSetPath(target) == [t |-> "setPath", target |-> target]
ThenSize(outputFormat) == [t |-> "size", unit |-> outputFormat]
Op(kind, h, path, data, opts, settled, next) ==
  [kind |-> kind, h |-> h, path |-> path, data |-> data, opts |-> opts,
   settled |-> settled, next |-> next]

RemoveAt(s, i) == [j \in 1..(Len(s) - 1) |-> IF j < i THEN s[j] ELSE s[j + 1]]

\* the history of the cache: the last cache transition of each handle
NoHist == [set |-> FALSE]
MaxAge == MaxExpires + 1

\* the history after the i-th fs call in flight has left: ahead counts the
\* calls issued before the call of the last transition that are still in flight
Passed(i) ==
  [h \in Handles |->
     IF hist[h].set /\ i <= hist[h].ahead THEN [hist[h] EXCEPT !.ahead = @ - 1] ELSE hist[h]]

\* the history after the callback of the i-th fs call in flight has made a
\* cache transition on h; late: the call was issued before the call of the
\* transition before, which has overtaken it; cleared: the caller has since
\* cleared the cache while a timer was armed
Recorded(i, h, opts, val) ==
  [Passed(i) EXCEPT ![h] =
     [set |-> TRUE, val |-> val, expires |-> OptExpires(opts),
      resetTimer |-> OptResetTimer(opts),
      prevLeft |-> LeftOf(timers, handles[h].cacheTimer), age |-> 0,
      ahead |-> i - 1, late |-> hist[h].set /\ i <= hist[h].ahead, cleared |-> FALSE]]

\* ---------------------------------------------------------------- File
\* new File(filepath): the constructor, without explicit defaults
File(filepath) ==
  [path |-> filepath, cache |-> Null, cacheTimer |-> NoTimer,
   defaults |-> cloneOptions(defaultOptions), options |-> OptUndefined]

HandlePath(h) == IF h = "file" THEN "f" ELSE "g"

\* ---------------------------------------------------------------- Directory
\* new Directory(pathname)
Directory(pathname) ==
  [path |-> pathname,
   fileOptions |-> [cache |-> FALSE, expires |-> 0, fromCache |-> FALSE, resetTimer |-> TRUE]]

\* the platforms of the runtime
Platforms == {"win32", "posix"}

\* a directory path, as the segments between its separators; the empty path ''
\* has none. The paths are relative to a base, the drive or the working
\* directory
Names == {"a", "b"}

\* the paths Directory.make is called with
DirPaths == UNION {[1..n -> Names] : n \in 1..MaxDepth}

\* a directory of the filesystem: its components below the base, each one the
\* name parts a backslash separates; the base itself is <<>>
Requested(dirpath) == [i \in 1..Len(dirpath) |-> <<dirpath[i]>>]
Parent(q) == SubSeq(q, 1, Len(q) - 1)

\* the directory the fs is asked for by the string of the segments p, joined
\* by backslashes: on win32 every segment is a component; on posix a backslash
\* is a character of a name and the string is one component
FsPath(pf, p) ==
  IF pf = "win32" THEN Requested(p) ELSE IF p = <<>> THEN <<>> ELSE <<p>>

\* the filesystems a call can start from: the base may be missing, a
\* directory that exists has its parent
Trees ==
  {t \in SUBSET ({<<>>} \cup {Requested(p) : p \in DirPaths}) :
     \A q \in t : q # <<>> => Parent(q) \in t}

\* no call of Directory.make has been made. p is the path of the fs.mkdir call
\* in flight, s the stack $s, n the number of that call modulo 2
NoMake ==
  [status |-> "idle", dirpath |-> <<>>, recursive |-> FALSE, p |-> <<>>, s |-> <<>>,
   n |-> 0, err |-> "none"]

\* the File objects and the files after construction
InitFile ==
  /\ files = [p \in Paths |-> IF p = "f" THEN NoFile ELSE <<>>]
  /\ handles = [h \in Handles |-> File(HandlePath(h))]
  /\ timers = {}
  /\ pending = <<>>
  /\ out = NoOut
  /\ hist = [h \in Handles |-> NoHist]

Init ==
  /\ InitFile
  /\ directory = Directory("d")
  /\ tree = {<<>>}
  /\ make = NoMake
  /\ platform = "posix"

\* the option arguments a caller passes: nothing, a boolean, a number, or an
\* object with all four fields, with one field, or with none
OptionArgs ==
  {OptUndefined} \cup {OptBoolean(b) : b \in BOOLEAN}
    \cup {OptNumber(n) : n \in 0..MaxExpires}
    \cup {OptObject(o) : o \in FullOptions}
    \cup {OptObject(Restrict(o, D)) :
            o \in {defaultOptions, [defaultOptions EXCEPT !.resetTimer = FALSE]},
            D \in {{}, {"cache"}, {"resetTimer"}}}

\* the option arguments of the calls on two handles: a shorthand or nothing
ShorthandArgs == {OptUndefined} \cup {OptBoolean(b) : b \in BOOLEAN}

\* if ($.cache !== null) resolve($.cache): the promise of a read is settled at
\* the call when the cache is populated; the options are not consulted
ResolvesFromCache(cache, opts) == cache # Null

\* File.prototype.read up to the fs.readFile call, on the File object file that
\* the handle h names (NoHandle: a temporary object); next is the .then()
\* callback chained on the promise
ReadOp(h, file, options, next) ==
  Op("readFile", h, file.path, Null,
     inspectOptions(OrOptions(options, file.options), file),
     ResolvesFromCache(file.cache, inspectOptions(OrOptions(options, file.options), file)),
     next)

\* File.prototype.write and File.prototype.append up to the fs call
WriteOp(h, data, options) ==
  Op("writeFile", h, handles[h].path, data,
     inspectOptions(OrOptions(options, handles[h].options), handles[h]), FALSE, NoNext)

AppendOp(h, data, options) ==
  Op("appendFile", h, handles[h].path, data,
     inspectOptions(OrOptions(options, handles[h].options), handles[h]), FALSE, NoNext)

\* File.prototype.read
Read(h, options) ==
  /\ LET op == ReadOp(h, handles[h], options, NoNext) IN
       /\ pending' = Append(pending, op)
       /\ out' = IF op.settled THEN Resolved(h, handles[h].cache) ELSE NoOut
  /\ handles' = Inspected(handles, h, options)
  /\ UNCHANGED <<files, timers, hist>>
  /\ UNCHANGED dvars

\* fs.writeFile(path, data, ...) and fs.appendFile(path, data, ...): a string or
\* a Buffer is accepted; any other data is, depending on the runtime, converted
\* to a string and accepted, or refused by a TypeError thrown from the call
FsAccepts(data) == IF data.k \in {"string", "Buffer"} THEN {TRUE} ELSE BOOLEAN

\* File.prototype.write; a throw inside the promise executor rejects the promise
Write(h, data, options) ==
  /\ \E accepted \in FsAccepts(data) :
       IF accepted
         THEN /\ pending' = Append(pending, WriteOp(h, data, options))
              /\ out' = NoOut
         ELSE /\ pending' = pending
              /\ out' = Rejected(h, "TypeError")
  /\ handles' = Inspected(handles, h, options)
  /\ UNCHANGED <<files, timers, hist>>
  /\ UNCHANGED dvars

\* File.prototype.append
AppendData(h, data, options) ==
  /\ \E accepted \in FsAccepts(data) :
       IF accepted
         THEN /\ pending' = Append(pending, AppendOp(h, data, options))
              /\ out' = NoOut
         ELSE /\ pending' = pending
              /\ out' = Rejected(h, "TypeError")
  /\ handles' = Inspected(handles, h, options)
  /\ UNCHANGED <<files, timers, hist>>
  /\ UNCHANGED dvars

\* the sources appendFile is called with: a File, a path, or something else
FileSource(h) == [t |-> "File", h |-> h]
PathSource(p) == [t |-> "string", p |-> p]
OtherSource == [t |-> "number"]
Sources == {FileSource(h) : h \in Handles} \cup {PathSource(p) : p \in Paths} \cup {OtherSource}

\* File.prototype.appendFile
AppendFile(h, file, optionsArg) ==
  LET options == IF optionsArg.t = "undefined" THEN OptObject(handles[h].defaults)
                 ELSE optionsArg
  IN
  /\ UNCHANGED <<files, timers, hist>>
  /\ UNCHANGED dvars
  /\ IF file.t = "File" /\ Truthy(handles[file.h].cache)
       THEN \* data = file.cache; and the function ends
            /\ pending' = pending
            /\ out' = ReturnedUndefined(h)
            /\ handles' = handles
     ELSE IF file.t = "File"
       THEN LET rd == ReadOp(file.h, handles[file.h], OptUndefined, ThenAppend(h, options)) IN
            IF rd.settled
              THEN \* the read resolves at once (an empty string in the cache):
                   \* the append is issued while the fs read is still in flight
                   /\ pending' = pending \o
                        <<[rd EXCEPT !.next = NoNext], AppendOp(h, handles[file.h].cache, options)>>
                   /\ out' = NoOut
                   /\ handles' = Inspected(Inspected(handles, file.h, OptUndefined), h, options)
              ELSE /\ pending' = Append(pending, rd)
                   /\ out' = NoOut
                   /\ handles' = Inspected(handles, file.h, OptUndefined)
     ELSE IF file.t = "string"
       THEN /\ pending' = Append(pending,
                 ReadOp(NoHandle, File(file.p), OptUndefined, ThenAppend(h, options)))
            /\ out' = NoOut
            /\ handles' = handles
     ELSE \* new TypeError(...) is constructed and dropped
            /\ pending' = pending
            /\ out' = ReturnedUndefined(h)
            /\ handles' = handles

\* the targets link is called with: a path or something that is no string
LinkTargets == {[t |-> "string", v |-> <<"l">>], [t |-> "number", v |-> <<>>], [t |-> "undefined", v |-> <<>>]}

\* mutant of LinkRejectsTarget: the type of the target is not checked
LinkAcceptsAnything(path) == FALSE

\* typeof path !== 'string'
LinkRejectsTarget(path) == path.t # "string"

\* File.prototype.link
Link(h, path) ==
  /\ UNCHANGED <<files, handles, timers, hist>>
  /\ UNCHANGED dvars
  /\ IF LinkRejectsTarget(path)
       THEN /\ pending' = pending
            /\ out' = Thrown(h, "TypeError")
       ELSE /\ pending' = Append(pending,
                 Op("link", h, handles[h].path, Str(path.v), NoOpts, FALSE, NoNext))
            /\ out' = NoOut

\* the targets copyTo and moveTo are called with: a File, a path, or something
\* else
Targets == Sources

\* target.path || target
TargetPath(target) == IF target.t = "File" THEN handles[target.h].path ELSE target.p

\* mutant of MovedPath: the path is left as it was
MovedPathKept(file, target) == file.path

\* $.path = target.path || target
MovedPath(file, target) == TargetPath(target)

\* File.prototype.copyTo up to the piping of the streams
CopyOp(h, target, next) ==
  Op("copy", h, handles[h].path, Str(<<TargetPath(target)>>), NoOpts, FALSE, next)

\* File.prototype.remove up to the fs.unlink call
UnlinkOp(h, next) == Op("unlink", h, handles[h].path, Null, NoOpts, FALSE, next)

\* mutant of AfterCopy: the path is set when the copy is done
AfterCopySetPath(target) == ThenSetPath(target)

\* the callbacks moveTo chains on copyTo: remove, then the assignment of the path
AfterCopy(target) == ThenRemove(target)
AfterRemove(target) == ThenSetPath(target)

\* File.prototype.copyTo
CopyTo(h, target) ==
  /\ IF target.t \notin {"File", "string"}
       THEN /\ pending' = pending
            /\ out' = Thrown(h, "TypeError")
       ELSE /\ pending' = Append(pending, CopyOp(h, target, NoNext))
            /\ out' = NoOut
  /\ UNCHANGED <<files, handles, timers, hist>>
  /\ UNCHANGED dvars

\* File.prototype.moveTo
MoveTo(h, target) ==
  /\ IF target.t \notin {"File", "string"}
       THEN /\ pending' = pending
            /\ out' = Thrown(h, "TypeError")
       ELSE /\ pending' = Append(pending, CopyOp(h, target, AfterCopy(target)))
            /\ out' = NoOut
  /\ UNCHANGED <<files, handles, timers, hist>>
  /\ UNCHANGED dvars

\* File.prototype.remove
Remove(h) ==
  /\ pending' = Append(pending, UnlinkOp(h, NoNext))
  /\ out' = NoOut
  /\ UNCHANGED <<files, handles, timers, hist>>
  /\ UNCHANGED dvars

\* File.prototype.stat
Stat(h) ==
  /\ pending' = Append(pending, Op("stat", h, handles[h].path, Null, NoOpts, FALSE, NoNext))
  /\ out' = NoOut
  /\ UNCHANGED <<files, handles, timers, hist>>
  /\ UNCHANGED dvars

\* the outputFormat arguments of getSize: nothing, or a number
OutputFormats == {OptUndefined, OptNumber(0), OptNumber(1)}

\* File.prototype.getSize
GetSize(h, outputFormat) ==
  /\ pending' = Append(pending,
       Op("stat", h, handles[h].path, Null, NoOpts, FALSE,
          ThenSize(IF Falsy(outputFormat) \/ outputFormat.t # "number" THEN 0
                   ELSE outputFormat.n)))
  /\ out' = NoOut
  /\ UNCHANGED <<files, handles, timers, hist>>
  /\ UNCHANGED dvars

\* ---------------------------------------------------------------- fs
\* the contents a successful fs call leaves at op.path
FileAfter(op) ==
  CASE op.kind = "writeFile" -> Text(op.data)
    [] op.kind = "appendFile" ->
         (IF files[op.path] = NoFile THEN <<>> ELSE files[op.path]) \o Text(op.data)
    [] OTHER -> files[op.path]

\* mutant of ReadData: the callback gets an empty Buffer
ReadDataEmpty(op) == Buf(<<>>)

\* the data a successful fs.readFile hands to the callback: a Buffer
ReadData(op) == Buf(files[op.path])

\* the value the callback of op puts in the cache when options.cache is set
CacheAfter(op) ==
  CASE op.kind = "readFile" -> StoreCacheValue(handles[op.h].cache, ReadData(op))
    [] op.kind = "writeFile" -> StoreCacheValue(handles[op.h].cache, op.data)
    [] OTHER -> AppendCacheValue(handles[op.h].cache, op.data)

\* does the callback of op enter the block under if (options.cache)
Caches(op) == op.kind # "link" /\ op.h # NoHandle /\ ShouldCache(op.opts)

\* the kinds of fs call that need the file to exist
NeedsFile == {"readFile", "link", "copy", "unlink", "stat"}

\* the path a copy writes to
CopyTarget(op) == op.data.v[1]

\* the files a successful fs call can leave. A copy onto its own source opens
\* the file for writing, which empties it, while it is read: it leaves the
\* contents or nothing
FilesAfter(op) ==
  CASE op.kind = "copy" ->
         {[files EXCEPT ![CopyTarget(op)] = c] :
            c \in IF CopyTarget(op) = op.path THEN {<<>>, files[op.path]} ELSE {files[op.path]}}
    [] op.kind = "unlink" -> {[files EXCEPT ![op.path] = NoFile]}
    [] OTHER -> {[files EXCEPT ![op.path] = FileAfter(op)]}

\* the files a failed fs call can leave: the write stream of a copy may have
\* created or emptied the target before the error
FilesAfterError(op) ==
  IF op.kind = "copy" THEN {files, [files EXCEPT ![CopyTarget(op)] = <<>>]} ELSE {files}

\* the fs can complete op without error (the lengths stay within MaxLen)
CanSucceed(op) ==
  /\ op.kind \in NeedsFile => files[op.path] # NoFile
  /\ Len(FileAfter(op)) <= MaxLen
  /\ (op.kind = "appendFile" /\ Caches(op)) => Len(CacheAfter(op).v) <= MaxLen

\* the callback of the i-th fs call in flight, called without an error
FsSucceed(i) ==
  LET op == pending[i] IN
  /\ CanSucceed(op)
  /\ UNCHANGED dvars
  /\ files' \in FilesAfter(op)
  /\ LET r == IF Caches(op)
                THEN CacheTransition(op.h, op.opts, CacheAfter(op), handles, timers)
                ELSE [handles |-> handles, timers |-> timers]
     IN /\ handles' = IF op.kind = "readFile" /\ ~op.settled /\ op.next.t = "append"
                        THEN Inspected(r.handles, op.next.h, op.next.options)
                      ELSE IF op.next.t = "setPath"
                        THEN \* ($.path = target.path || target, $)
                             [r.handles EXCEPT ![op.h].path = MovedPath(handles[op.h], op.next.target)]
                        ELSE r.handles
        /\ timers' = r.timers
        /\ hist' = IF Caches(op) THEN Recorded(i, op.h, op.opts, CacheAfter(op)) ELSE Passed(i)
  /\ IF op.kind = "readFile"
       THEN IF op.settled
              THEN \* resolve(data) on a settled promise does nothing
                   /\ pending' = RemoveAt(pending, i)
                   /\ out' = NoOut
            ELSE IF op.next.t = "append"
              THEN \* .then(function (data) { return $.append(data, options); })
                   /\ pending' = Append(RemoveAt(pending, i),
                                        AppendOp(op.next.h, ReadData(op), op.next.options))
                   /\ out' = NoOut
            ELSE IF op.next.t = "pair"
              THEN \* .then(function (data) { return [$, data]; })
                   /\ pending' = RemoveAt(pending, i)
                   /\ out' = ResolvedPair(op.h, ReadData(op))
            ELSE /\ pending' = RemoveAt(pending, i)
                 /\ out' = Resolved(op.h, ReadData(op))
     ELSE IF op.next.t = "remove"
       THEN \* .then(function ($) { return $.remove() })
            /\ pending' = Append(RemoveAt(pending, i),
                                 UnlinkOp(op.h, AfterRemove(op.next.target)))
            /\ out' = NoOut
     ELSE IF op.kind = "stat"
       THEN /\ pending' = RemoveAt(pending, i)
            /\ out' = IF op.next.t = "size"
                        THEN ResolvedSize(op.h, Len(files[op.path]), op.next.unit)
                        ELSE ResolvedStats(op.h, Len(files[op.path]))
       ELSE /\ pending' = RemoveAt(pending, i)
            /\ out' = ResolvedSelf(op.h)

\* the error the fs reports when it fails op
FsError(op) ==
  IF op.kind \in NeedsFile /\ files[op.path] = NoFile THEN "ENOENT" ELSE "EIO"

\* mutant of FsFail: the failure drops the cache and the timer of the handle
FsFailDropsCache(i) ==
  LET op == pending[i] IN
  /\ pending' = RemoveAt(pending, i)
  /\ out' = IF op.settled THEN NoOut
            ELSE Rejected(IF op.next.t = "append" THEN op.next.h ELSE op.h, FsError(op))
  /\ files' \in FilesAfterError(op)
  /\ hist' = Passed(i)
  /\ handles' = IF op.h = NoHandle THEN handles
                ELSE [handles EXCEPT ![op.h].cache = Null, ![op.h].cacheTimer = NoTimer]
  /\ timers' = IF op.h = NoHandle THEN timers ELSE {t \in timers : t.h # op.h}
  /\ UNCHANGED dvars

\* the callback of the i-th fs call in flight, called with an error
FsFail(i) ==
  LET op == pending[i] IN
  /\ pending' = RemoveAt(pending, i)
  /\ out' = IF op.settled THEN NoOut
            ELSE Rejected(IF op.next.t = "append" THEN op.next.h ELSE op.h, FsError(op))
  /\ files' \in FilesAfterError(op)
  /\ hist' = Passed(i)
  /\ UNCHANGED <<handles, timers>>
  /\ UNCHANGED dvars

\* the callback of an expiration timer
TimerFire(t) ==
  /\ t.left = 0
  /\ handles' = [handles EXCEPT ![t.h].cache = Null, ![t.h].cacheTimer = NoTimer]
  /\ timers' = timers \ {t}
  /\ out' = NoOut
  /\ UNCHANGED <<files, pending, hist>>
  /\ UNCHANGED dvars

\* one unit of time passes; a timer that is due fires first
Tick ==
  /\ \A t \in timers : t.left > 0
  /\ timers' = {[t EXCEPT !.left = @ - 1] : t \in timers}
  /\ hist' = [h \in Handles |->
                IF hist[h].set /\ hist[h].age < MaxAge
                  THEN [hist[h] EXCEPT !.age = @ + 1] ELSE hist[h]]
  /\ out' = NoOut
  /\ UNCHANGED <<files, handles, pending>>
  /\ UNCHANGED dvars

\* no fs call is in flight
Idle == pending = <<>>

\* fewer than n fs calls are in flight
Room(n) == Len(pending) < n

\* one File object whose caller lets each fs call complete before the next
\* call, every option argument, the timers and the clock
Next ==
  \/ Idle /\ \E h \in {"file"}, o \in OptionArgs : Read(h, o)
  \/ Idle /\ \E h \in {"file"}, d \in DataIn, o \in OptionArgs : Write(h, d, o)
  \/ Idle /\ \E h \in {"file"}, d \in DataIn, o \in OptionArgs : AppendData(h, d, o)
  \/ Idle /\ \E h \in {"file"}, p \in LinkTargets : Link(h, p)
  \/ \E i \in 1..Len(pending) : FsSucceed(i)
  \/ \E i \in 1..Len(pending) : FsFail(i)
  \/ \E t \in timers : TimerFire(t)
  \/ Tick

Spec == Init /\ [][Next]_vars

\* the option arguments of the concurrent calls: the longest delay as a number,
\* or an object that asks for a shorter delay without a reset
TimerArgs ==
  {OptNumber(MaxExpires),
   OptObject([cache |-> TRUE, expires |-> MaxExpires - 1, resetTimer |-> FALSE])}

\* one File object whose caller issues calls without waiting for the promises,
\* up to MaxPending fs calls in flight
NextRace ==
  \/ Room(MaxPending) /\ \E h \in {"file"}, o \in TimerArgs : Read(h, o)
  \/ Room(MaxPending) /\ \E h \in {"file"}, d \in {Str(<<"a">>)}, o \in TimerArgs :
       Write(h, d, o)
  \/ Room(MaxPending) /\ \E h \in {"file"}, d \in {Str(<<"a">>)}, o \in TimerArgs :
       AppendData(h, d, o)
  \/ \E i \in 1..Len(pending) : FsSucceed(i)
  \/ \E i \in 1..Len(pending) : FsFail(i)
  \/ \E t \in timers : TimerFire(t)
  \/ Tick

SpecRace == Init /\ [][NextRace]_vars

\* one File object whose caller issues caching reads and writes without waiting
\* for the promises, up to MaxPending fs calls in flight
NextOrder ==
  \/ Room(MaxPending) /\ \E h \in {"file"}, o \in TimerArgs : Read(h, o)
  \/ Room(MaxPending) /\ \E h \in {"file"}, d \in {Str(<<"a">>)}, o \in TimerArgs :
       Write(h, d, o)
  \/ \E i \in 1..Len(pending) : FsSucceed(i)
  \/ \E i \in 1..Len(pending) : FsFail(i)
  \/ \E t \in timers : TimerFire(t)
  \/ Tick

SpecOrder == Init /\ [][NextOrder]_vars

\* two File objects whose caller lets each call complete before the next, the
\* shorthand option arguments, appendFile between the two
NextFiles ==
  \/ Idle /\ \E h \in Handles, o \in ShorthandArgs : Read(h, o)
  \/ Idle /\ \E h \in Handles, d \in DataIn, o \in ShorthandArgs : Write(h, d, o)
  \/ Idle /\ \E h \in Handles, d \in DataIn, o \in ShorthandArgs : AppendData(h, d, o)
  \/ Idle /\ \E h \in Handles, f \in Sources, o \in ShorthandArgs : AppendFile(h, f, o)
  \/ \E i \in 1..Len(pending) : FsSucceed(i)
  \/ \E i \in 1..Len(pending) : FsFail(i)

SpecFiles == Init /\ [][NextFiles]_vars

\* what an assignment by the caller to a field of the File object leaves visible
Assigned(h, field) == [ev |-> "assign", h |-> h, what |-> field]

\* mutant of ClearCache: the assignment also cancels the timer
ClearCacheAndTimer(h) ==
  /\ handles' = [handles EXCEPT ![h].cache = Null, ![h].cacheTimer = NoTimer]
  /\ timers' = clearTimeout(timers, handles[h].cacheTimer)
  /\ hist' = [hist EXCEPT ![h] = IF @.set /\ handles[h].cacheTimer # NoTimer
                                   THEN [@ EXCEPT !.cleared = TRUE] ELSE @]
  /\ out' = Assigned(h, "cache")
  /\ UNCHANGED <<files, pending>>
  /\ UNCHANGED dvars

\* file.cache = null, by the caller
ClearCache(h) ==
  /\ handles' = [handles EXCEPT ![h].cache = Null]
  /\ hist' = [hist EXCEPT ![h] = IF @.set /\ handles[h].cacheTimer # NoTimer
                                   THEN [@ EXCEPT !.cleared = TRUE] ELSE @]
  /\ out' = Assigned(h, "cache")
  /\ UNCHANGED <<files, timers, pending>>
  /\ UNCHANGED dvars

\* one File object whose caller lets each fs call complete before the next and
\* clears the cache at any time, the timers and the clock
NextClear ==
  \/ Idle /\ \E h \in {"file"}, o \in TimerArgs \cup {OptUndefined} : Read(h, o)
  \/ Idle /\ \E h \in {"file"}, o \in TimerArgs \cup {OptUndefined} :
       Write(h, Str(<<"a">>), o)
  \/ \E h \in {"file"} : ClearCache(h)
  \/ \E i \in 1..Len(pending) : FsSucceed(i)
  \/ \E i \in 1..Len(pending) : FsFail(i)
  \/ \E t \in timers : TimerFire(t)
  \/ Tick

SpecClear == Init /\ [][NextClear]_vars

\* the records a caller assigns to the options field of a File object: one
\* field, the record of the cache test, or the fileOptions of a Directory
AssignedOptions ==
  {OptObject([cache |-> TRUE]),
   OptObject([fromCache |-> TRUE, cache |-> TRUE, expires |-> MaxExpires, resetTimer |-> FALSE]),
   OptObject([cache |-> FALSE, expires |-> 0, fromCache |-> FALSE, resetTimer |-> TRUE])}

\* f.options = { ... }
SetOptions(h, o) ==
  /\ handles' = [handles EXCEPT ![h].options = o]
  /\ out' = NoOut
  /\ UNCHANGED <<files, timers, pending, hist>>
  /\ UNCHANGED dvars

\* f.defaults.cache = true
SetDefaultCache(h, b) ==
  /\ handles' = [handles EXCEPT ![h].defaults["cache"] = b]
  /\ out' = NoOut
  /\ UNCHANGED <<files, timers, pending, hist>>
  /\ UNCHANGED dvars

\* f.defaults.expires = 6000
SetDefaultExpires(h, n) ==
  /\ handles' = [handles EXCEPT ![h].defaults["expires"] = n]
  /\ out' = NoOut
  /\ UNCHANGED <<files, timers, pending, hist>>
  /\ UNCHANGED dvars

\* path.join(this.path, filename): the files of the model are named relative
\* to the directory
PathJoin(dirpath, filename) == filename

\* the File object of the handle h has not been used: a Directory call can put
\* the File it constructs in its place
Unused(h) == handles[h] = File(HandlePath(h))

\* dir.fileOptions.cache = true, before the directory hands out File objects
SetFileOptionsCache(b) ==
  /\ \A h \in Handles : Unused(h)
  /\ directory' = [directory EXCEPT !.fileOptions["cache"] = b]
  /\ out' = NoOut
  /\ UNCHANGED <<files, handles, timers, pending, hist, tree, make, platform>>

\* dir.fileOptions.expires = n
SetFileOptionsExpires(n) ==
  /\ \A h \in Handles : Unused(h)
  /\ directory' = [directory EXCEPT !.fileOptions["expires"] = n]
  /\ out' = NoOut
  /\ UNCHANGED <<files, handles, timers, pending, hist, tree, make, platform>>

\* Directory.prototype.readFile: the new File takes the place of the handle h
DirReadFile(h, filename) ==
  LET file == [File(PathJoin(directory.path, filename))
                 EXCEPT !.options = OptObject(directory.fileOptions)]
  IN /\ Unused(h)
     /\ handles' = [handles EXCEPT ![h] = file]
     /\ pending' = Append(pending, ReadOp(h, file, OptBoolean(TRUE), ThenPair))
     /\ out' = NoOut
     /\ UNCHANGED <<files, timers, hist>>
     /\ UNCHANGED dvars

\* this.options of a Directory: it has no such field
DirectoryOptions(d) == OptUndefined

\* cache || false
OrFalse(cache) == IF Falsy(cache) THEN OptBoolean(FALSE) ELSE cache

\* Directory.prototype.writeFile
DirWriteFile(h, filename, data, cache) ==
  LET file == [File(PathJoin(directory.path, filename))
                 EXCEPT !.options = DirectoryOptions(directory)]
  IN /\ Unused(h)
     /\ handles' = [handles EXCEPT ![h] = file]
     /\ pending' = Append(pending,
          Op("writeFile", h, file.path, data,
             inspectOptions(OrOptions(OrFalse(cache), file.options), file), FALSE, NoNext))
     /\ out' = NoOut
     /\ UNCHANGED <<files, timers, hist>>
     /\ UNCHANGED dvars

\* Directory.prototype.getFileReference
GetFileReference(h, filename, inheritOptions) ==
  LET file == File(PathJoin(directory.path, filename)) IN
  /\ Unused(h)
  /\ handles' = [handles EXCEPT ![h] =
       IF Falsy(inheritOptions) THEN file
       ELSE [file EXCEPT !.options = OptObject(directory.fileOptions)]]
  /\ out' = ReturnedFile(h)
  /\ UNCHANGED <<files, timers, pending, hist>>
  /\ UNCHANGED dvars

\* a Directory whose caller sets its fileOptions, then gets File objects from
\* it and reads and writes through them, each fs call completing before the
\* next call
NextDir ==
  \/ Idle /\ \E b \in BOOLEAN : SetFileOptionsCache(b)
  \/ Idle /\ \E n \in 0..MaxExpires : SetFileOptionsExpires(n)
  \/ Idle /\ \E h \in Handles, f \in Paths : DirReadFile(h, f)
  \/ Idle /\ \E h \in Handles, f \in Paths, d \in DataIn, c \in ShorthandArgs :
       DirWriteFile(h, f, d, c)
  \/ Idle /\ \E h \in Handles, f \in Paths, i \in ShorthandArgs : GetFileReference(h, f, i)
  \/ Idle /\ \E h \in Handles : Read(h, OptUndefined)
  \/ Idle /\ \E h \in Handles, d \in DataIn : Write(h, d, OptUndefined)
  \/ \E i \in 1..Len(pending) : FsSucceed(i)
  \/ \E i \in 1..Len(pending) : FsFail(i)
  \/ \E t \in timers : TimerFire(t)
  \/ Tick

SpecDir == Init /\ [][NextDir]_vars

\* the option arguments of the calls on a configured handle: nothing, a boolean
\* or a number
CallArgs == ShorthandArgs \cup {OptNumber(n) : n \in 0..MaxExpires}

\* one File object whose caller changes its defaults and its options between
\* the calls, passes shorthand option arguments and lets each fs call complete
\* before the next step; no time passes
NextOptions ==
  \/ Idle /\ \E h \in {"file"}, o \in AssignedOptions : SetOptions(h, o)
  \/ Idle /\ \E h \in {"file"}, b \in BOOLEAN : SetDefaultCache(h, b)
  \/ Idle /\ \E h \in {"file"}, n \in 0..MaxExpires : SetDefaultExpires(h, n)
  \/ Idle /\ \E h \in {"file"}, o \in CallArgs : Read(h, o)
  \/ Idle /\ \E h \in {"file"}, d \in DataIn, o \in CallArgs : Write(h, d, o)
  \/ Idle /\ \E h \in {"file"}, d \in DataIn, o \in CallArgs : AppendData(h, d, o)
  \/ Idle /\ \E h \in {"file"}, p \in Paths, o \in CallArgs : AppendFile(h, PathSource(p), o)
  \/ \E i \in 1..Len(pending) : FsSucceed(i)
  \/ \E i \in 1..Len(pending) : FsFail(i)

SpecOptions == Init /\ [][NextOptions]_vars

\* one File object whose caller passes any data, a string, a Buffer or a
\* number, with the shorthand option arguments, and lets each fs call complete
\* before the next call
NextData ==
  \/ Idle /\ \E h \in {"file"}, o \in ShorthandArgs : Read(h, o)
  \/ Idle /\ \E h \in {"file"}, d \in DataIn \cup BadData, o \in ShorthandArgs : Write(h, d, o)
  \/ Idle /\ \E h \in {"file"}, d \in DataIn \cup BadData, o \in ShorthandArgs :
       AppendData(h, d, o)
  \/ \E i \in 1..Len(pending) : FsSucceed(i)
  \/ \E i \in 1..Len(pending) : FsFail(i)

SpecData == Init /\ [][NextData]_vars

\* one File object whose caller passes a string or null as data, with and
\* without delays, and a path to appendFile, and lets each call complete before
\* the next; the timers and the clock
NextStates ==
  \/ Idle /\ \E h \in {"file"}, o \in TimerArgs \cup {OptUndefined} : Read(h, o)
  \/ Idle /\ \E h \in {"file"}, d \in {Str(<<"a">>), Null}, o \in TimerArgs \cup {OptUndefined} :
       Write(h, d, o)
  \/ Idle /\ \E h \in {"file"}, o \in TimerArgs \cup {OptUndefined} :
       AppendData(h, Str(<<"a">>), o)
  \/ Idle /\ \E h \in {"file"}, p \in Paths, o \in TimerArgs \cup {OptUndefined} :
       AppendFile(h, PathSource(p), o)
  \/ \E i \in 1..Len(pending) : FsSucceed(i)
  \/ \E i \in 1..Len(pending) : FsFail(i)
  \/ \E t \in timers : TimerFire(t)
  \/ Tick

SpecStates == Init /\ [][NextStates]_vars

\* two File objects: the caller changes the defaults of both, reads through
\* both, writes through the first and appends the second to the first, each
\* call completing before the next; the timers and the clock
NextIsolation ==
  \/ Idle /\ \E h \in Handles, b \in BOOLEAN : SetDefaultCache(h, b)
  \/ Idle /\ \E h \in {"other"}, n \in {0, 1} : SetDefaultExpires(h, n)
  \/ Idle /\ \E h \in Handles : Read(h, OptUndefined)
  \/ Idle /\ \E h \in {"file"} : Write(h, Str(<<"a">>), OptUndefined)
  \/ Idle /\ \E h \in {"file"}, g \in {"other"} : AppendFile(h, FileSource(g), OptUndefined)
  \/ \E i \in 1..Len(pending) : FsSucceed(i)
  \/ \E i \in 1..Len(pending) : FsFail(i)
  \/ \E t \in timers : TimerFire(t)
  \/ Tick

SpecIsolation == Init /\ [][NextIsolation]_vars

\* the option arguments of the calls next to the moves: nothing, or the cache
\* shorthand
MoveArgs == {OptUndefined, OptBoolean(TRUE)}

\* two File objects whose caller copies, moves, removes and inspects the files,
\* and reads and writes through the first one, each call completing before the
\* next
NextMove ==
  \/ Idle /\ \E h \in {"file"}, o \in MoveArgs : Read(h, o)
  \/ Idle /\ \E h \in {"file"}, o \in MoveArgs : Write(h, Str(<<"a">>), o)
  \/ Idle /\ \E h \in {"file"} : AppendData(h, Str(<<"a">>), OptUndefined)
  \/ Idle /\ \E h \in {"file"}, p \in Paths : AppendFile(h, PathSource(p), OptUndefined)
  \/ Idle /\ \E h \in Handles, t \in Targets : CopyTo(h, t)
  \/ Idle /\ \E h \in Handles, t \in Targets : MoveTo(h, t)
  \/ Idle /\ \E h \in Handles : Remove(h)
  \/ Idle /\ \E h \in Handles : Stat(h)
  \/ Idle /\ \E h \in Handles, u \in OutputFormats : GetSize(h, u)
  \/ Idle /\ \E h \in Handles, p \in LinkTargets : Link(h, p)
  \/ \E i \in 1..Len(pending) : FsSucceed(i)
  \/ \E i \in 1..Len(pending) : FsFail(i)

SpecMove == Init /\ [][NextMove]_vars

\* ---------------------------------------------------------------- Directory.make
\* the results fs.mkdir can report for the directory q: the empty path and a
\* missing parent give ENOENT, an existing directory EEXIST; otherwise the
\* directory is made, unless another error occurs
MkdirResults(q) ==
  IF q = <<>> THEN {"ENOENT"}
  ELSE IF q \in tree THEN {"EEXIST"}
  ELSE IF Parent(q) \notin tree THEN {"ENOENT"}
  ELSE {"none", "EACCES"}

ResolvedDirectory(dirpath) == [ev |-> "resolve", what |-> "directory", path |-> dirpath]

\* the paths of $s the model records: the segments of dirpath, '' and one more.
\* A longer $s holds '' on top and is never popped, fs.mkdir('') cannot succeed
StackCap == MaxDepth + 2

\* $s.push($p)
Push(s, p) == IF Len(s) < StackCap THEN Append(s, p) ELSE s

\* Directory.make up to the first fs.mkdir call; recursive: $(path.win32.normalize(dirpath))
Make(dirpath, recursive) ==
  /\ make.status # "running"
  /\ make' = [status |-> "running", dirpath |-> dirpath, recursive |-> recursive,
              p |-> dirpath, s |-> <<>>, n |-> 0, err |-> "none"]
  /\ out' = NoOut
  /\ UNCHANGED <<files, handles, timers, pending, hist, directory, tree, platform>>

\* ($p = $p.split('\\')).pop(); $p = $p.join('\\'): the path without its last segment
NextAfterEnoent(p) == SubSeq(p, 1, Len(p) - 1)

\* the callback of fs.mkdir in Directory.make
MkdirDone ==
  /\ make.status = "running"
  /\ UNCHANGED <<files, handles, timers, pending, hist, directory, platform>>
  /\ LET q == IF make.recursive THEN FsPath(platform, make.p) ELSE Requested(make.dirpath) IN
     \E e \in MkdirResults(q) :
       IF e = "none"
         THEN /\ tree' = tree \cup {q}
              /\ IF make.recursive /\ make.s # <<>>
                   THEN \* $($s.pop())
                        /\ make' = [make EXCEPT !.p = make.s[Len(make.s)],
                                                !.s = SubSeq(make.s, 1, Len(make.s) - 1),
                                                !.n = 1 - make.n]
                        /\ out' = NoOut
                   ELSE \* resolve(new Directory(dirpath))
                        /\ make' = [make EXCEPT !.status = "resolved"]
                        /\ out' = ResolvedDirectory(make.dirpath)
       ELSE IF make.recursive /\ e = "ENOENT"
         THEN \* $s.push($p); ...; $($p)
              /\ make' = [make EXCEPT !.s = Push(make.s, make.p),
                                      !.p = NextAfterEnoent(make.p),
                                      !.n = 1 - make.n]
              /\ tree' = tree
              /\ out' = NoOut
         ELSE \* reject(err)
              /\ make' = [make EXCEPT !.status = "rejected", !.err = e]
              /\ tree' = tree
              /\ out' = Rejected(NoHandle, e)

\* Directory.make on every filesystem and platform
InitMake ==
  /\ InitFile
  /\ directory = Directory("d")
  /\ tree \in Trees
  /\ make = NoMake
  /\ platform \in Platforms

NextMake ==
  \/ \E d \in DirPaths, r \in BOOLEAN : Make(d, r)
  \/ MkdirDone

SpecMake == InitMake /\ [][NextMake]_vars

\* every fs.mkdir call gets its callback
SpecMakeLive == SpecMake /\ WF_vars(MkdirDone)

\* ================================================================ claims
\* the steps of the callbacks of the i-th call in flight
Completes(i) == FsSucceed(i) \/ FsFail(i)
IsFileOp(op) == op.kind \in {"readFile", "writeFile", "appendFile"} /\ op.h # NoHandle

\* C1: a read whose resolved options have fromCache = true, called while the
\* cache is populated, resolves with the cached value and issues no fs.readFile.
C1_FromCacheSkipsReadFile ==
  [][\A h \in Handles, o \in OptionArgs :
       (/\ Read(h, o)
        /\ OptFromCache(inspectOptions(OrOptions(o, handles[h].options), handles[h]))
        /\ handles[h].cache # Null)
       => (out' = Resolved(h, handles[h].cache) /\ pending' = pending)]_vars

\* C2: a successful write or read with cache = true leaves the written or read
\* value in the cache; a successful append with cache = true on a populated
\* cache leaves the prior cache followed by the appended data.
C2_CachePopulation ==
  [][\A i \in 1..Len(pending) :
       LET op == pending[i] IN
       (FsSucceed(i) /\ IsFileOp(op) /\ OptCache(op.opts)) =>
         /\ op.kind = "writeFile" => handles'[op.h].cache = op.data
         /\ op.kind = "readFile" => handles'[op.h].cache = Buf(files[op.path])
         /\ (op.kind = "appendFile" /\ handles[op.h].cache # Null) =>
              handles'[op.h].cache.v = handles[op.h].cache.v \o op.data.v]_vars

\* C2 witness: an append has extended a cached value by its data
C2_Witness ==
  /\ handles["file"].cache = Str(<<"a", "a">>)
  /\ hist["file"].set /\ hist["file"].val = Str(<<"a", "a">>)
  /\ out = ResolvedSelf("file")

\* C3: a read, write or append whose resolved options have cache = false
\* leaves the cache, the cacheTimer and the armed timers as they were, at its
\* call and at its callback.
C3_UncachedFrame ==
  [][/\ \A i \in 1..Len(pending) :
          (Completes(i) /\ IsFileOp(pending[i]) /\ ~OptCache(pending[i].opts))
            => UNCHANGED <<handles, timers>>
     /\ (Len(pending') > Len(pending)) => UNCHANGED <<handles, timers>>]_vars

\* C3 witness: an uncached append has completed on a handle whose cache holds
\* the written "a" under an armed timer: the file has grown, the cache has not
C3_Witness ==
  /\ handles["file"].cache = Str(<<"a">>)
  /\ handles["file"].cacheTimer # NoTimer
  /\ files["f"] = <<"a", "a">>
  /\ out = ResolvedSelf("file")
  /\ pending = <<>>

\* C4: a handle has at most one armed expiration timer, and an armed timer is
\* the one cacheTimer refers to.
C4_TimerExclusivity ==
  /\ \A h \in Handles : Cardinality({t \in timers : t.h = h}) <= 1
  /\ \A t \in timers : handles[t.h].cacheTimer = t.id

\* C4 witness: a timer is armed while MaxPending more caching calls are in flight
C4_Witness ==
  /\ timers # {}
  /\ Len(pending) = MaxPending
  /\ \A i \in 1..Len(pending) : OptCache(pending[i].opts) /\ OptExpires(pending[i].opts) > 0

\* C5 as stated: once T has elapsed after a successful caching operation with
\* expires = T > 0, and no caching operation since, the cache is absent,
\* whatever resetTimer and whatever timer was armed before.
C5_ExpiresAfterT ==
  \A h \in Handles :
    (hist[h].set /\ hist[h].expires > 0 /\ hist[h].age > hist[h].expires)
      => handles[h].cache = Null

\* C5 amended: the cache is absent once T has elapsed when resetTimer is true
\* or no timer was armed before the operation; with resetTimer = false and a
\* timer armed, once the time left on that timer has elapsed.
C5_ExpiresAfterT_Amended ==
  \A h \in Handles :
    (hist[h].set /\ hist[h].expires > 0) =>
      IF hist[h].resetTimer \/ hist[h].prevLeft < 0
        THEN hist[h].age > hist[h].expires => handles[h].cache = Null
        ELSE hist[h].age > hist[h].prevLeft => handles[h].cache = Null

\* C5 witness: T has elapsed and the timer armed by the operation has fired
C5_Witness ==
  /\ hist["file"].set /\ hist["file"].expires > 0
  /\ hist["file"].prevLeft < 0
  /\ hist["file"].age > hist["file"].expires
  /\ handles["file"].cache = Null /\ timers = {}

\* C6: a successful caching operation with resetTimer = false on a handle with
\* an armed timer neither cancels nor re-arms it: the timer and the time left
\* on it are unchanged.
C6_NoResetKeepsTimer ==
  [][\A i \in 1..Len(pending) :
       LET op == pending[i] IN
       (/\ FsSucceed(i) /\ IsFileOp(op) /\ OptCache(op.opts)
        /\ ~OptResetTimer(op.opts) /\ handles[op.h].cacheTimer # NoTimer)
       => (timers' = timers /\ handles'[op.h].cacheTimer = handles[op.h].cacheTimer)]_vars

\* C6 witness: such an operation, asking for a longer delay, has completed
\* and the earlier timer still has its time left
C6_Witness ==
  /\ hist["file"].set /\ ~hist["file"].resetTimer /\ hist["file"].age = 0
  /\ hist["file"].prevLeft >= 0 /\ hist["file"].expires > hist["file"].prevLeft
  /\ LeftOf(timers, handles["file"].cacheTimer) = hist["file"].prevLeft

\* C7: a successful caching operation with resetTimer = true and expires = T > 0
\* completed while an earlier timer was armed: until T has elapsed the cache
\* holds the value of that operation, after T it is absent.
C7_ResetRestartsCountdown ==
  \A h \in Handles :
    (hist[h].set /\ hist[h].resetTimer /\ hist[h].prevLeft >= 0 /\ hist[h].expires > 0) =>
      /\ hist[h].age < hist[h].expires => handles[h].cache = hist[h].val
      /\ hist[h].age > hist[h].expires => handles[h].cache = Null

\* C7 witness: the fire time of the earlier timer has passed and the cache
\* still holds the value of the later operation
C7_Witness ==
  /\ hist["file"].set /\ hist["file"].resetTimer /\ hist["file"].prevLeft >= 0
  /\ hist["file"].age > hist["file"].prevLeft
  /\ hist["file"].age < hist["file"].expires
  /\ handles["file"].cache = hist["file"].val /\ handles["file"].cache # Null

\* C8: appendFile with a source File whose cache is populated issues one
\* fs.appendFile of exactly the cached value on the target, and no fs.readFile.
C8_AppendFileFromCache ==
  [][\A h \in Handles, s \in Handles, o \in ShorthandArgs :
       (AppendFile(h, FileSource(s), o) /\ handles[s].cache # Null)
       => (/\ Len(pending') = Len(pending) + 1
           /\ pending'[Len(pending')].kind = "appendFile"
           /\ pending'[Len(pending')].h = h
           /\ pending'[Len(pending')].data = handles[s].cache)]_vars

\* C9: link with a target that is no string throws a TypeError and issues no
\* fs.link; with a string it issues fs.link, whose success resolves to the handle.
C9_LinkValidation ==
  [][/\ \A h \in Handles, p \in LinkTargets :
          Link(h, p) =>
            IF p.t # "string"
              THEN out' = Thrown(h, "TypeError") /\ pending' = pending
              ELSE /\ out' = NoOut /\ Len(pending') = Len(pending) + 1
                   /\ pending'[Len(pending')].kind = "link"
     /\ \A i \in 1..Len(pending) :
          (pending[i].kind = "link" /\ FsSucceed(i)) => out' = ResolvedSelf(pending[i].h)]_vars

\* C9 witness: a link call has thrown
C9_Witness == out = Thrown("file", "TypeError") /\ pending = <<>>

\* C10: a read that resolved from the cache at its call, its resolved options
\* having fromCache = true, changes neither the cache nor the timers afterwards.
C10_FromCacheNoTransition ==
  [][\A i \in 1..Len(pending) :
       LET op == pending[i] IN
       (/\ Completes(i) /\ op.kind = "readFile" /\ op.h # NoHandle
        /\ op.settled /\ OptFromCache(op.opts))
       => UNCHANGED <<handles, timers>>]_vars

\* C11: a read whose resolved options have fromCache = false does not resolve at
\* its call, also with a populated cache: it resolves at the callback of
\* fs.readFile with the data read from the file.
C11_NoFromCacheReadsFile ==
  [][/\ \A h \in Handles, o \in OptionArgs :
          (/\ Read(h, o)
           /\ ~OptFromCache(inspectOptions(OrOptions(o, handles[h].options), handles[h])))
          => out' = NoOut
     /\ \A i \in 1..Len(pending) :
          LET op == pending[i] IN
          (/\ FsSucceed(i) /\ op.kind = "readFile" /\ op.next = NoNext
           /\ ~OptFromCache(op.opts))
          => out' = Resolved(op.h, ReadData(op))]_vars

\* C12: a successful append with cache = true on a handle whose cache is absent
\* leaves the cache absent.
C12_AppendKeepsCacheAbsent ==
  [][\A i \in 1..Len(pending) :
       LET op == pending[i] IN
       (/\ FsSucceed(i) /\ op.kind = "appendFile" /\ OptCache(op.opts)
        /\ handles[op.h].cache = Null)
       => handles'[op.h].cache = Null]_vars

\* C13 as stated: a successful caching read, write or append with
\* resetTimer = false arms no timer, whatever expires and whether or not a timer
\* was armed before.
C13_NoResetNoNewTimer ==
  [][\A i \in 1..Len(pending) :
       LET op == pending[i] IN
       (/\ FsSucceed(i) /\ IsFileOp(op) /\ OptCache(op.opts) /\ ~OptResetTimer(op.opts))
       => timers' \subseteq timers]_vars

\* C13 amended: with resetTimer = false no timer is armed when one was armed
\* before or expires = 0; with no timer armed before and expires > 0 exactly
\* one timer, of the delay expires, is armed and cacheTimer refers to it.
C13_NoResetNoNewTimer_Amended ==
  [][\A i \in 1..Len(pending) :
       LET op == pending[i] IN
       (/\ FsSucceed(i) /\ IsFileOp(op) /\ OptCache(op.opts) /\ ~OptResetTimer(op.opts))
       => IF handles[op.h].cacheTimer # NoTimer \/ OptExpires(op.opts) = 0
            THEN timers' = timers /\ handles'[op.h].cacheTimer = handles[op.h].cacheTimer
            ELSE \E t \in timers' \ timers :
                   /\ timers' = timers \cup {t}
                   /\ t.h = op.h /\ t.left = OptExpires(op.opts)
                   /\ handles'[op.h].cacheTimer = t.id]_vars

\* C13 witness: an operation with resetTimer = false, completed with no timer
\* armed before, has armed the timer of its delay
C13_Witness ==
  /\ hist["file"].set /\ ~hist["file"].resetTimer /\ hist["file"].age = 0
  /\ hist["file"].prevLeft < 0 /\ hist["file"].expires > 0
  /\ LeftOf(timers, handles["file"].cacheTimer) = hist["file"].expires

\* C14 as stated: the value a successful caching operation with expires = 0 put
\* in the cache stays there until the next caching operation, whatever
\* resetTimer and whatever timer was armed before.
C14_ZeroExpiresNeverCleared ==
  \A h \in Handles :
    (hist[h].set /\ hist[h].expires = 0) => handles[h].cache = hist[h].val

\* C14 amended: the value stays, and no timer is armed on the handle, when
\* resetTimer is true or no timer was armed before the operation; with
\* resetTimer = false and a timer armed, the value is cleared once the time
\* left on that timer has elapsed.
C14_ZeroExpiresNeverCleared_Amended ==
  \A h \in Handles :
    (hist[h].set /\ hist[h].expires = 0) =>
      IF hist[h].resetTimer \/ hist[h].prevLeft < 0
        THEN /\ handles[h].cache = hist[h].val
             /\ handles[h].cacheTimer = NoTimer
             /\ \A t \in timers : t.h # h
        ELSE /\ hist[h].age < hist[h].prevLeft => handles[h].cache = hist[h].val
             /\ hist[h].age > hist[h].prevLeft => handles[h].cache = Null

\* C14 witness: the value of an operation with expires = 0 and resetTimer = true
\* is still cached after the fire time of the timer that was armed before it
C14_Witness ==
  /\ hist["file"].set /\ hist["file"].expires = 0 /\ hist["file"].resetTimer
  /\ hist["file"].prevLeft >= 0 /\ hist["file"].age > hist["file"].prevLeft
  /\ handles["file"].cache = hist["file"].val /\ handles["file"].cache # Null

\* the resolved options of the fs call a call step has just issued
Issued == pending'[Len(pending')].opts

\* C15: a boolean b passed as the option argument of read, write or append
\* gives resolved options with cache = b, whatever the defaults and the assigned
\* options of the handle.
C15_BooleanSetsCache ==
  [][\A h \in Handles, b \in BOOLEAN :
       /\ Read(h, OptBoolean(b)) => OptCache(Issued) = b
       /\ \A d \in DataIn :
            (Write(h, d, OptBoolean(b)) \/ AppendData(h, d, OptBoolean(b)))
              => OptCache(Issued) = b]_vars

\* C16: a number n >= 0, 0 included, passed as the option argument of read,
\* write or append gives resolved options with cache = true and expires = n.
C16_NumberSetsExpires ==
  [][\A h \in Handles, n \in 0..MaxExpires :
       /\ Read(h, OptNumber(n)) => (OptCache(Issued) /\ OptExpires(Issued) = n)
       /\ \A d \in DataIn :
            (Write(h, d, OptNumber(n)) \/ AppendData(h, d, OptNumber(n)))
              => (OptCache(Issued) /\ OptExpires(Issued) = n)]_vars

\* C17: read, write, append and appendFile called without an option on a handle
\* with an assigned options record resolve every field of that record to its
\* value there, over the defaults; for appendFile, in the append it issues.
C17_OptionsOverDefaults ==
  [][/\ \A h \in Handles :
          (/\ handles[h].options.t = "object"
           /\ \/ Read(h, OptUndefined)
              \/ \E d \in DataIn : Write(h, d, OptUndefined) \/ AppendData(h, d, OptUndefined))
          => \A k \in DOMAIN handles[h].options.o : Issued[k] = handles[h].options.o[k]
     /\ \A i \in 1..Len(pending) :
          LET op == pending[i] IN
          (/\ FsSucceed(i) /\ op.kind = "readFile" /\ op.next.t = "append"
           /\ op.next.options = OptObject(handles[op.next.h].defaults)
           /\ handles[op.next.h].options.t = "object")
          => \A k \in DOMAIN handles[op.next.h].options.o :
               Issued[k] = handles[op.next.h].options.o[k]]_vars

\* C18: only an assignment by the caller changes the defaults or the assigned
\* options of a handle: no call of read, write, append or appendFile and no
\* callback does.
C18_OptionsFrame ==
  [][\/ \E h \in Handles, o \in AssignedOptions : SetOptions(h, o)
     \/ \E h \in Handles, b \in BOOLEAN : SetDefaultCache(h, b)
     \/ \E h \in Handles, n \in 0..MaxExpires : SetDefaultExpires(h, n)
     \/ \A h \in Handles :
          /\ handles'[h].defaults = handles[h].defaults
          /\ handles'[h].options = handles[h].options]_vars

\* C18 witness: on a handle whose defaults were changed to expire and that was
\* given an options record, a write with the option true has cached its data:
\* the defaults still say cache = false
C18_Witness ==
  /\ handles["file"].defaults = [defaultOptions EXCEPT !.expires = MaxExpires]
  /\ handles["file"].options = OptObject([cache |-> TRUE])
  /\ handles["file"].cache = Str(<<"a">>)
  /\ handles["file"].cacheTimer # NoTimer
  /\ out = ResolvedSelf("file")

\* C19: write and append called with data that is neither a string nor a Buffer
\* fail with a TypeError at the call and issue no fs call.
C19_DataValidation ==
  [][\A h \in Handles, d \in BadData, o \in ShorthandArgs :
       (Write(h, d, o) \/ AppendData(h, d, o))
       => (/\ out' \in {Thrown(h, "TypeError"), Rejected(h, "TypeError")}
           /\ pending' = pending)]_vars

\* C20: when the fs call of a read, write, append or link fails with an error,
\* the promise of the call is rejected with that error.
C20_ErrorsPropagate ==
  [][\A i \in 1..Len(pending) :
       LET op == pending[i] IN
       (FsFail(i) /\ op.h # NoHandle /\ op.next = NoNext)
       => out' = Rejected(op.h, FsError(op))]_vars

\* C24: the promise of a read, write or append whose resolved options have
\* cache = true is resolved by the callback step that applies the cache
\* transition, never before it: not at the call, also with a populated cache.
C24_TransitionBeforeResolve ==
  [][/\ \A h \in Handles, o \in OptionArgs :
          (Read(h, o) /\ OptCache(Issued)) => out'.ev # "resolve"
     /\ \A i \in 1..Len(pending) :
          LET op == pending[i] IN
          (FsSucceed(i) /\ IsFileOp(op) /\ OptCache(op.opts) /\ out'.ev = "resolve")
          => handles'[op.h].cache = CacheAfter(op)]_vars

\* C26: appendFile called with a source that is neither a File nor a string
\* fails with a TypeError and issues no fs call.
C26_AppendFileValidation ==
  [][\A h \in Handles, o \in ShorthandArgs :
       AppendFile(h, OtherSource, o)
       => (/\ out' \in {Thrown(h, "TypeError"), Rejected(h, "TypeError")}
           /\ pending' = pending)]_vars

\* C25: appendFile with a path, or with a source File whose cache is absent,
\* issues the read of the source and nothing else; the success of that read
\* issues the append of exactly the data read on the target; its failure issues
\* nothing, rejects with the error of the read and leaves the files and the
\* target's cache and timer as they were.
C25_AppendFileReadsThenAppends ==
  [][/\ \A h \in Handles, f \in Sources, o \in ShorthandArgs :
          (/\ AppendFile(h, f, o)
           /\ \/ f.t = "string"
              \/ f.t = "File" /\ handles[f.h].cache = Null)
          => /\ Len(pending') = Len(pending) + 1
             /\ pending'[Len(pending')].kind = "readFile"
             /\ pending'[Len(pending')].path =
                  (IF f.t = "string" THEN f.p ELSE handles[f.h].path)
             /\ out' = NoOut
     /\ \A i \in 1..Len(pending) :
          LET op == pending[i] IN
          (op.kind = "readFile" /\ op.next.t = "append") =>
            /\ FsSucceed(i) =>
                 /\ Len(pending') = Len(pending)
                 /\ pending'[Len(pending')].kind = "appendFile"
                 /\ pending'[Len(pending')].h = op.next.h
                 /\ pending'[Len(pending')].path = handles[op.next.h].path
                 /\ pending'[Len(pending')].data = Buf(files[op.path])
            /\ FsFail(i) =>
                 /\ pending' = RemoveAt(pending, i)
                 /\ out' = Rejected(op.next.h, FsError(op))
                 /\ files' = files
                 /\ handles'[op.next.h].cache = handles[op.next.h].cache
                 /\ handles'[op.next.h].cacheTimer = handles[op.next.h].cacheTimer
                 /\ timers' = timers]_vars

\* C25 witness: an appendFile on the handle of the existing file g, whose
\* source is the missing file f, has failed with the error of the read
C25_Witness ==
  /\ out = Rejected("other", "ENOENT")
  /\ pending = <<>>
  /\ files["f"] = NoFile

\* C21: the File that readFile or writeFile of a Directory constructs has the
\* directory's fileOptions as its options, and a writeFile without a cache
\* argument resolves its options to the fileOptions.
C21_DirectoryFilesInherit ==
  [][\A h \in Handles, f \in Paths :
       /\ DirReadFile(h, f) => handles'[h].options = OptObject(directory.fileOptions)
       /\ \A d \in DataIn, c \in ShorthandArgs :
            DirWriteFile(h, f, d, c) =>
              /\ handles'[h].options = OptObject(directory.fileOptions)
              /\ c = OptUndefined => Issued = directory.fileOptions]_vars

\* C22: readFile of a Directory reads with the fileOptions and cache = true; its
\* success resolves to [file, data] with data in the cache of the file and,
\* with fileOptions.expires = T > 0, a timer of T armed on it.
C22_DirectoryReadFile ==
  [][/\ \A h \in Handles, f \in Paths :
          DirReadFile(h, f) =>
            /\ OptCache(Issued)
            /\ OptExpires(Issued) = directory.fileOptions.expires
     /\ \A i \in 1..Len(pending) :
          LET op == pending[i] IN
          (FsSucceed(i) /\ op.kind = "readFile" /\ op.next = ThenPair) =>
            /\ out' = ResolvedPair(op.h, Buf(files[op.path]))
            /\ handles'[op.h].cache = Buf(files[op.path])
            /\ directory.fileOptions.expires > 0 =>
                 LeftOf(timers', handles'[op.h].cacheTimer) = directory.fileOptions.expires]_vars

\* C23: getFileReference issues no fs call; called without inheritOptions or
\* with true it returns a File with the directory's fileOptions as options,
\* with false a File without options.
C23_GetFileReference ==
  [][\A h \in Handles, f \in Paths, i \in ShorthandArgs :
       GetFileReference(h, f, i) =>
         /\ pending' = pending
         /\ out' = ReturnedFile(h)
         /\ handles'[h].options =
              (IF i = OptBoolean(FALSE) THEN OptUndefined
               ELSE OptObject(directory.fileOptions))]_vars

\* C27: moveTo issues the copy alone; the success of the copy issues the
\* removal of the source and leaves the path; the failure of the copy issues
\* nothing, rejects, and leaves the source file and the path; the success of
\* the removal sets the path to the target's; its failure rejects and leaves
\* the path.
C27_MoveToOrder ==
  [][/\ \A h \in Handles, t \in Targets :
          (Len(pending') > Len(pending) /\ t.t \in {"File", "string"} /\ MoveTo(h, t)) =>
            /\ Len(pending') = Len(pending) + 1
            /\ pending'[Len(pending')].kind = "copy"
            /\ handles' = handles /\ files' = files
     /\ \A i \in 1..Len(pending) :
          LET op == pending[i] IN
          /\ (op.kind = "copy" /\ op.next.t \in {"remove", "setPath"}) =>
               /\ FsSucceed(i) =>
                    /\ Len(pending') = Len(pending)
                    /\ pending'[Len(pending')].kind = "unlink"
                    /\ pending'[Len(pending')].path = handles[op.h].path
                    /\ handles'[op.h].path = handles[op.h].path
                    /\ out' = NoOut
               /\ FsFail(i) =>
                    /\ pending' = RemoveAt(pending, i)
                    /\ out' = Rejected(op.h, FsError(op))
                    /\ handles'[op.h].path = handles[op.h].path
                    /\ files[op.path] # NoFile => files'[op.path] # NoFile
          /\ (op.kind = "unlink" /\ op.next.t \in {"remove", "setPath"}) =>
               /\ FsSucceed(i) =>
                    /\ handles'[op.h].path = TargetPath(op.next.target)
                    /\ files'[op.path] = NoFile
                    /\ pending' = RemoveAt(pending, i)
                    /\ out' = ResolvedSelf(op.h)
               /\ FsFail(i) =>
                    /\ pending' = RemoveAt(pending, i)
                    /\ out' = Rejected(op.h, FsError(op))
                    /\ handles'[op.h].path = handles[op.h].path]_vars

\* C27 witness: the first handle, moved from f to g, resolves: f is gone, g
\* holds what f held
C27_Witness ==
  /\ handles["file"].path = "g"
  /\ files["f"] = NoFile /\ files["g"] = <<"a">>
  /\ out = ResolvedSelf("file") /\ pending = <<>>

C29_MakeTerminates ==
  (make.status = "running" /\ make.recursive) ~> (make.status \in {"resolved", "rejected"})

\* C30: when recursive Directory.make has resolved, the directory asked for
\* and all its ancestors exist, and the promise holds a Directory of the path
\* asked for; a directory is made only where its parent exists.
C30_MakeCreatesRequested ==
  [][(/\ MkdirDone
      /\ \A q \in tree' \ tree : Parent(q) \in tree
      /\ (make.recursive /\ make'.status = "resolved") =>
           /\ \A k \in 1..Len(make.dirpath) : Requested(SubSeq(make.dirpath, 1, k)) \in tree'
           /\ out' = ResolvedDirectory(make.dirpath))
     \/ ~MkdirDone]_vars

\* C31: with several caching calls in flight on a handle, the callback of any
\* of them can be the next to run; the callback of a read or a write that
\* succeeds leaves its own value in the cache, whatever the cache held and
\* whichever calls are still in flight, leaves the other calls in flight, and
\* leaves at most one timer armed for the handle, the one cacheTimer names.
C31_LastCompletedWins ==
  [][\A i \in 1..Len(pending) :
       LET op == pending[i] IN
       (op.kind \in {"readFile", "writeFile"} /\ Caches(op) /\ FsSucceed(i)) =>
         /\ handles'[op.h].cache = (IF op.kind = "readFile" THEN Buf(files[op.path]) ELSE op.data)
         /\ pending' = RemoveAt(pending, i)
         /\ Cardinality({t \in timers' : t.h = op.h}) <= 1
         /\ \A t \in timers' : t.h = op.h => handles'[op.h].cacheTimer = t.id]_vars

\* C31 witness: a read and a write were in flight together, the write, issued
\* later, completed first and the read last: the cache holds what the read got,
\* one timer is armed
C31_Witness ==
  /\ pending = <<>>
  /\ hist["file"].set /\ hist["file"].late
  /\ handles["file"].cache = Buf(<<"a">>)
  /\ handles["file"].cache = hist["file"].val
  /\ out = Resolved("file", Buf(<<"a">>))
  /\ Cardinality(timers) = 1

\* C32: the firing of an expiration timer leaves its handle without cache,
\* without timer reference and without armed timer, and leaves a cache that is
\* already absent absent; the caller's clearing of the cache leaves the armed
\* timers and the timer reference as they were.
C32_TimerFiresToEmpty ==
  [][/\ \A t \in timers :
          TimerFire(t) =>
            /\ handles'[t.h].cache = Null
            /\ handles'[t.h].cacheTimer = NoTimer
            /\ \A u \in timers' : u.h # t.h
            /\ \A h \in Handles \ {t.h} : handles'[h] = handles[h]
     /\ \A h \in Handles :
          (out' = Assigned(h, "cache") /\ ClearCache(h)) =>
            /\ timers' = timers
            /\ handles'[h].cacheTimer = handles[h].cacheTimer]_vars

\* C32 witness: the caller has cleared the cache under an armed timer, the
\* delay has passed and the timer has fired: no cache, no timer
C32_Witness ==
  /\ hist["file"].set /\ hist["file"].cleared
  /\ handles["file"].cache = Null /\ handles["file"].cacheTimer = NoTimer
  /\ timers = {}

\* C33: a handle is Empty (no cache, no timer), Cached-Persistent (cache, no
\* timer) or Cached-Expiring (cache and timer): a handle whose cacheTimer names
\* a timer has a cache, and cacheTimer names a timer exactly when one is armed
\* for the handle.
C33_ThreeStates ==
  \A h \in Handles :
    /\ handles[h].cacheTimer # NoTimer => handles[h].cache # Null
    /\ handles[h].cacheTimer # NoTimer <=>
         \E t \in timers : t.h = h /\ t.id = handles[h].cacheTimer

\* C34: the callback of a read, a write or an append that is called with an
\* error leaves the cache, the timer reference and the armed timers of every
\* handle as they were, whatever the options of the call; so does the call
\* itself.
C34_FailureFrame ==
  [][/\ \A i \in 1..Len(pending) :
          (IsFileOp(pending[i]) /\ FsFail(i)) => (handles' = handles /\ timers' = timers)
     /\ Len(pending') > Len(pending) =>
          /\ timers' = timers
          /\ \A h \in Handles :
               /\ handles'[h].cache = handles[h].cache
               /\ handles'[h].cacheTimer = handles[h].cacheTimer]_vars

\* C34 witness: a call on a handle with a cache and an armed timer has failed
\* on an existing file: the promise is rejected, cache and timer are there
C34_Witness ==
  /\ out = Rejected("file", "EIO")
  /\ pending = <<>>
  /\ handles["file"].cache # Null
  /\ handles["file"].cacheTimer # NoTimer
  /\ \E t \in timers : t.id = handles["file"].cacheTimer /\ t.left > 0

\* the handle whose call has issued the fs call op: the handle appendFile was
\* called on for the read of its source, the handle of the call otherwise
Owner(op) == IF op.next.t = "append" THEN op.next.h ELSE op.h

\* the cache, the timer reference and the armed timers of the handles other
\* than h are left as they are
OthersKept(h) ==
  \A g \in Handles \ {h} :
    /\ handles'[g].cache = handles[g].cache
    /\ handles'[g].cacheTimer = handles[g].cacheTimer
    /\ {t \in timers' : t.h = g} = {t \in timers : t.h = g}

\* C35: a call on a handle, the callbacks of the fs calls it issues and the
\* firing of a timer of the handle leave the cache and the timer of every other
\* handle; an assignment to the defaults of a handle leaves the options every
\* other handle resolves.
C35_HandlesIsolated ==
  [][/\ \A i \in 1..Len(pending) :
          (Owner(pending[i]) # NoHandle /\ Completes(i)) => OthersKept(Owner(pending[i]))
     /\ \A h \in Handles :
          (Len(pending') > Len(pending) /\ Len(pending) = 0 /\ pending'[1].h = h
             /\ pending'[1].next.t # "append") => OthersKept(h)
     /\ \A t \in timers : TimerFire(t) => OthersKept(t.h)
     /\ \A h \in Handles :
          handles'[h].defaults # handles[h].defaults =>
            \A g \in Handles \ {h} :
              inspectOptions(handles'[g].options, handles'[g])
                = inspectOptions(handles[g].options, handles[g])]_vars

====
